---- MODULE Spec2Model ----
(***************************************************************************)
(* Model of page_generator: loading a JSON configuration file              *)
(* (utils/json_utils.py, app/config_utils.py) and constructing a           *)
(* PageManager from it (app/page_manager.py).                              *)
(*                                                                         *)
(* A Python str is a sequence of one-character strings, so that prefix    *)
(* tests, lower(), strip() and replace() are computed, not assumed.        *)
(* A Python dict is a sequence of <<key, value>> pairs with distinct keys, *)
(* in insertion order.                                                     *)
(***************************************************************************)
EXTENDS Integers, Sequences, FiniteSets, TLC

VARIABLES
    entry,               \* the class the caller constructs: "Config" or "PageManager"
    fs,                  \* what the file system holds at the path config_file
    environ,             \* os.environ
    pc,                  \* how far construction has got
    json_data_obj,       \* the JsonDataFile instance's attributes (its __dict__)
    template_variables,  \* Config._template_variables
    credentials,         \* PageManager._credentials
    template_source,     \* PageManager._template_source
    trace,               \* the calls made so far, in order
    error,               \* the exception that ended construction, if any
    ref,                 \* the outcome of the last get_value_from_json_ref call
    page_url,            \* the string handed to the URL helpers
    out,                 \* the outcomes of the URL helpers called on page_url, by name
    response,            \* the HTTP response the server gave to the last request
    outcome,             \* the outcome of the last client or PageManager operation
    is_authenticated,    \* PageManager.is_authenticated
    log,                 \* the probes, sessions and requests sent so far, in order
    _html_template       \* PageManager._html_template

\* What a ConfluenceClient and a constructed PageManager work on
apivars == <<response, outcome, is_authenticated, log, _html_template>>

vars == <<entry, fs, environ, pc, json_data_obj, template_variables,
          credentials, template_source, trace, error, ref, page_url, out,
          response, outcome, is_authenticated, log, _html_template>>

(***************************************************************************)
(* Python values                                                           *)
(***************************************************************************)

\* None, where a str is expected: no str is a sequence holding this element.
PyNone == <<"<None>">>

\* Tagged values, for the places that hold a str, a dict, None or a method.
PStr(s) == [ty |-> "str", s |-> s]
PDict(d) == [ty |-> "dict", d |-> d]
PNoneType == [ty |-> "NoneType"]
PMethod(name) == [ty |-> "method", name |-> name]

Digits == <<"0","1","2","3","4","5","6","7","8","9">>

RECURSIVE NatToStr(_)
NatToStr(n) ==
    IF n < 10 THEN <<Digits[n + 1]>>
    ELSE NatToStr(n \div 10) \o <<Digits[(n % 10) + 1]>>

\* str() of an int.
IntToStr(n) == IF n < 0 THEN <<"-">> \o NatToStr(0 - n) ELSE NatToStr(n)

\* k in d.keys()
DictHas(d, k) == \E i \in 1..Len(d) : d[i][1] = k

\* d[k], for a key d holds
DictGet(d, k) == d[CHOOSE i \in 1..Len(d) : d[i][1] = k][2]

\* list(d.keys())
DictKeys(d) == [i \in 1..Len(d) |-> d[i][1]]

\* d[k] = v: a key d holds keeps its place and takes the new value, a new
\* key goes to the end.
DictSet(d, k, v) ==
    IF DictHas(d, k)
    THEN [i \in 1..Len(d) |-> IF d[i][1] = k THEN <<k, v>> ELSE d[i]]
    ELSE Append(d, <<k, v>>)

\* s.startswith(p)
StartsWith(s, p) == Len(s) >= Len(p) /\ SubSeq(s, 1, Len(p)) = p

\* sub in s
Contains(s, sub) ==
    \E i \in 0..(Len(s) - Len(sub)) : SubSeq(s, i + 1, i + Len(sub)) = sub

UpperCase == <<"A","B","C","D","E","F","G","H","I","J","K","L","M",
               "N","O","P","Q","R","S","T","U","V","W","X","Y","Z">>
LowerCase == <<"a","b","c","d","e","f","g","h","i","j","k","l","m",
               "n","o","p","q","r","s","t","u","v","w","x","y","z">>

LowerChar(c) ==
    IF \E i \in 1..Len(UpperCase) : UpperCase[i] = c
    THEN LowerCase[CHOOSE i \in 1..Len(UpperCase) : UpperCase[i] = c]
    ELSE c

\* s.lower()
Lower(s) == [i \in 1..Len(s) |-> LowerChar(s[i])]

Whitespace == {" ", "\t", "\n", "\r"}

RECURSIVE LStrip(_)
LStrip(s) ==
    IF s # <<>> /\ Head(s) \in Whitespace THEN LStrip(Tail(s)) ELSE s

RECURSIVE RStrip(_)
RStrip(s) ==
    IF s # <<>> /\ s[Len(s)] \in Whitespace
    THEN RStrip(SubSeq(s, 1, Len(s) - 1))
    ELSE s

\* s.strip()
Strip(s) == RStrip(LStrip(s))

\* s.replace(old, new), old not empty: every occurrence, left to right,
\* without overlap.
RECURSIVE Replace(_, _, _)
Replace(s, old, new) ==
    IF s = <<>> THEN <<>>
    ELSE IF StartsWith(s, old)
         THEN new \o Replace(SubSeq(s, Len(old) + 1, Len(s)), old, new)
         ELSE <<Head(s)>> \o Replace(Tail(s), old, new)

\* os.path.basename(p): what follows the last "/"
RECURSIVE Basename(_)
Basename(p) ==
    IF \E i \in 1..Len(p) : p[i] = "/"
    THEN Basename(SubSeq(p, (CHOOSE i \in 1..Len(p) : p[i] = "/") + 1, Len(p)))
    ELSE p

(***************************************************************************)
(* JSON values, as json.load returns them                                  *)
(***************************************************************************)

JStr(s) == [t |-> "str", s |-> s]
JInt(n) == [t |-> "int", n |-> n]
JBool(b) == [t |-> "bool", b |-> b]
JNull == [t |-> "NoneType"]
JList(el) == [t |-> "list", el |-> el]
\* kv: the dict's items, <<key, value>>, in insertion order
JObj(kv) == [t |-> "dict", kv |-> kv]

\* str(x) of a JSON scalar
PyStr(x) ==
    CASE x.t = "str" -> x.s
      [] x.t = "int" -> IntToStr(x.n)
      [] x.t = "bool" -> IF x.b THEN <<"T","r","u","e">> ELSE <<"F","a","l","s","e">>
      [] x.t = "NoneType" -> <<"N","o","n","e">>

\* str(remaining_key): the key, or "None" when there is none
StrKey(remaining_key) ==
    IF remaining_key = PyNone THEN <<"N","o","n","e">> ELSE remaining_key

(***************************************************************************)
(* utils/json_utils.py: JsonDataFile                                       *)
(***************************************************************************)

\* data_model[str(remaining_key)] = str(json_data), keeping an earlier value
StoreLeafKeepFirst(data_model, remaining_key, json_data) ==
    IF DictHas(data_model, StrKey(remaining_key))
    THEN data_model
    ELSE DictSet(data_model, StrKey(remaining_key), PyStr(json_data))

\* data_model[str(remaining_key)] = str(json_data)
StoreLeaf(data_model, remaining_key, json_data) ==
    DictSet(data_model, StrKey(remaining_key), PyStr(json_data))

\* the key a list passes down to its elements, were it to drop its own
ListKeyDropped(remaining_key) == PyNone

\* the key a list passes down to its elements: the one it received
ListKey(remaining_key) == remaining_key

RECURSIVE _reverse_json(_, _, _)
RECURSIVE ReverseItems(_, _)
RECURSIVE ReverseValues(_, _, _)

\* for key, value in json_data.items(): self._reverse_json(value, data_model, key)
ReverseItems(items, data_model) ==
    IF items = <<>> THEN data_model
    ELSE ReverseItems(Tail(items),
                      _reverse_json(Head(items)[2], data_model, Head(items)[1]))

\* for value in json_data: self._reverse_json(value, data_model, remaining_key)
ReverseValues(values, data_model, remaining_key) ==
    IF values = <<>> THEN data_model
    ELSE ReverseValues(Tail(values),
                       _reverse_json(Head(values), data_model, ListKey(remaining_key)),
                       remaining_key)

\* The accumulator data_model is returned instead of mutated in place.
_reverse_json(json_data, data_model, remaining_key) ==
    IF json_data.t = "dict" THEN ReverseItems(json_data.kv, data_model)
    ELSE IF json_data.t = "list"
         THEN ReverseValues(json_data.el, data_model, remaining_key)
         ELSE StoreLeaf(data_model, remaining_key, json_data)

_break_down_json_data(json_data) == _reverse_json(json_data, <<>>, PyNone)

\* The attributes of class JsonDataFile: two properties without a setter,
\* the methods, and the class docstring.
A_file_name == <<"f","i","l","e","_","n","a","m","e">>
A_json_model_dict == <<"j","s","o","n","_","m","o","d","e","l","_","d","i","c","t">>
A_has_json_attribute ==
    <<"h","a","s","_","j","s","o","n","_","a","t","t","r","i","b","u","t","e">>
A_get_value_from_json_ref ==
    <<"g","e","t","_","v","a","l","u","e","_","f","r","o","m","_","j","s","o","n","_","r","e","f">>
A__file_name == <<"_","f","i","l","e","_","n","a","m","e">>
A__json_model_dict == <<"_","j","s","o","n","_","m","o","d","e","l","_","d","i","c","t">>
A__doc__ == <<"_","_","d","o","c","_","_">>

ClassProperties == {A_file_name, A_json_model_dict}

ClassMethods ==
    {A_has_json_attribute, A_get_value_from_json_ref,
     <<"_","b","r","e","a","k","_","d","o","w","n","_","j","s","o","n","_","d","a","t","a">>,
     <<"_","r","e","v","e","r","s","e","_","j","s","o","n">>,
     <<"_","l","o","a","d","_","j","s","o","n","_","c","o","n","t","e","n","t">>,
     <<"_","_","i","n","i","t","_","_">>}

\* The class docstring, shortened.
ClassDoc == <<"C","l","a","s","s">>

NoError == [type |-> "", msg |-> "", arg |-> <<>>]
Err(type, msg, arg) == [type |-> type, msg |-> msg, arg |-> arg]

\* hasattr(self, name)
HasAttr(inst, name) ==
    \/ name \in ClassProperties \union ClassMethods \union {A__doc__}
    \/ DictHas(inst, name)

\* getattr(self, name), for a name that hasattr finds. A property comes
\* before the instance's own attribute, which comes before a method.
GetAttr(inst, name) ==
    IF name = A_file_name THEN DictGet(inst, A__file_name)
    ELSE IF name = A_json_model_dict THEN DictGet(inst, A__json_model_dict)
    ELSE IF DictHas(inst, name) THEN DictGet(inst, name)
    ELSE IF name \in ClassMethods THEN PMethod(name)
    ELSE PStr(ClassDoc)

\* for json_key, json_value in self._json_model_dict.items():
\*     setattr(self, json_key, json_value)
\* The items are those of the dict the loop started on. Setting a property
\* that has no setter raises AttributeError.
RECURSIVE SetAttrs(_, _)
SetAttrs(items, inst) ==
    IF items = <<>> THEN [inst |-> inst, error |-> NoError]
    ELSE IF Head(items)[1] \in ClassProperties
         THEN [inst |-> inst,
               error |-> Err("AttributeError", "property has no setter", Head(items)[1])]
         ELSE SetAttrs(Tail(items),
                       DictSet(inst, Head(items)[1], PStr(Head(items)[2])))

\* JsonDataFile.__init__, before _load_json_content
NewJsonDataFile ==
    <<<<A__file_name, PNoneType>>, <<A__json_model_dict, PDict(<<>>)>>>>

\* has_json_attribute, once called on an instance whose _json_model_dict is a dict
has_json_attribute(inst, json_attribute) ==
    DictHas(DictGet(inst, A__json_model_dict).d, json_attribute)

\* self.get_value_from_json_ref(json_ref): what it raises and what it returns.
\* The method is looked up on the instance first, where a key of the file
\* may have replaced it by a str.
get_value_from_json_ref(inst, json_ref) ==
    IF GetAttr(inst, A_get_value_from_json_ref).ty # "method"
    THEN [raised |-> Err("TypeError", "object is not callable", A_get_value_from_json_ref),
          value |-> PNoneType]
    ELSE IF HasAttr(inst, json_ref)
         THEN [raised |-> NoError, value |-> GetAttr(inst, json_ref)]
         ELSE [raised |-> Err("AttributeError", "does not contain attribute", json_ref),
               value |-> PNoneType]

(***************************************************************************)
(* confluence/models/json_model.py and app/config_utils.py: Config         *)
(***************************************************************************)

JSON_ATTR_HOST_URL == <<"h","o","s","t","_","u","r","l">>
JSON_ATTR_USER == <<"u","s","e","r">>
JSON_ATTR_PASS == <<"p","a","s","s">>
JSON_ATTR_SOURCE == <<"s","o","u","r","c","e">>
JSON_ATTR_SPACE_KEY == <<"s","p","a","c","e","_","k","e","y">>
JSON_ATTR_PARENT_PAGE_ID == <<"p","a","r","e","n","t","_","p","a","g","e","_","i","d">>
JSON_ATTR_PAGE_TITLE == <<"p","a","g","e","_","t","i","t","l","e">>

\* The list read from its other end
MandatoryListReversed ==
    <<JSON_ATTR_PAGE_TITLE, JSON_ATTR_PARENT_PAGE_ID, JSON_ATTR_SPACE_KEY,
      JSON_ATTR_SOURCE, JSON_ATTR_PASS, JSON_ATTR_USER, JSON_ATTR_HOST_URL>>

MANDATORY_CONFIG_LIST ==
    <<JSON_ATTR_HOST_URL, JSON_ATTR_USER, JSON_ATTR_PASS, JSON_ATTR_SOURCE,
      JSON_ATTR_SPACE_KEY, JSON_ATTR_PARENT_PAGE_ID, JSON_ATTR_PAGE_TITLE>>

\* _validate_mandatory_configuration, from the i-th attribute of the list on:
\* the exception it raises, or NoError. Each turn calls has_json_attribute on
\* the instance, which reads self._json_model_dict.keys().
RECURSIVE MandatoryCheckFrom(_, _)
MandatoryCheckFrom(i, inst) ==
    IF i > Len(MANDATORY_CONFIG_LIST) THEN NoError
    ELSE IF GetAttr(inst, A_has_json_attribute).ty # "method"
    THEN Err("TypeError", "object is not callable", A_has_json_attribute)
    ELSE IF DictGet(inst, A__json_model_dict).ty # "dict"
    THEN Err("AttributeError", "object has no attribute keys", A__json_model_dict)
    ELSE IF ~has_json_attribute(inst, MANDATORY_CONFIG_LIST[i])
    THEN Err("AttributeError", "does not contain mandatory attribute",
             MANDATORY_CONFIG_LIST[i])
    ELSE MandatoryCheckFrom(i + 1, inst)

\* a '$' anywhere in the name
HasDollar(var_name) == Contains(var_name, <<"$">>)

\* var_name.startswith('$')
IsTemplateVariable(var_name) == StartsWith(var_name, <<"$">>)

\* _validate_template_variables: the OrderedDict it fills from the items
RECURSIVE TemplateVariablesOf(_, _)
TemplateVariablesOf(items, acc) ==
    IF items = <<>> THEN acc
    ELSE TemplateVariablesOf(
             Tail(items),
             IF IsTemplateVariable(Head(items)[1])
             THEN DictSet(acc, Head(items)[1], Head(items)[2])
             ELSE acc)

(***************************************************************************)
(* app/page_manager.py: PageManager                                        *)
(***************************************************************************)

ENV_PREFIX == <<"e","n","v",".">>

K_user == <<"u","s","e","r">>
K_password == <<"p","a","s","s","w","o","r","d">>

\* os.environ.get(name)
EnvironGet(env, name) == IF name \in DOMAIN env THEN env[name] ELSE PyNone

\* PageManager.ENV_PREFIX in value.lower().strip()
UsesEnv(value) == Contains(Strip(Lower(value)), ENV_PREFIX)

\* value.strip().replace(PageManager.ENV_PREFIX, "")
EnvName(value) == Replace(Strip(value), ENV_PREFIX, <<>>)

\* One credential without the test for None
ResolveUnchecked(env, value) ==
    IF UsesEnv(value)
    THEN [cred |-> EnvironGet(env, EnvName(value)), error |-> NoError]
    ELSE [cred |-> value, error |-> NoError]

\* One credential taken as configured, whatever it holds
ResolveLiteral(env, value) == [cred |-> value, error |-> NoError]

\* One credential of _load_config_file: the value stored in _credentials and
\* the exception raised after storing it, if any.
Resolve(env, value) ==
    IF UsesEnv(value)
    THEN [cred |-> EnvironGet(env, EnvName(value)),
          error |-> IF EnvironGet(env, EnvName(value)) = PyNone
                    THEN Err("AssertionError", "Environment variable does not exist",
                             EnvName(value))
                    ELSE NoError]
    ELSE [cred |-> value, error |-> NoError]

(***************************************************************************)
(* The regular expressions of the URL helpers, matched the way re does:   *)
(* each repetition takes as much as it can.                                *)
(***************************************************************************)

SeqRange(s) == {s[i] : i \in 1..Len(s)}

\* \w, \d, [-\w_.] and [-\w_?~]
WordChars == SeqRange(UpperCase) \union SeqRange(LowerCase)
                 \union SeqRange(Digits) \union {"_"}
DigitChars == SeqRange(Digits)
HostChars == WordChars \union {"-", "_", "."}
SpaceChars == WordChars \union {"-", "_", "?", "~"}
\* '.' matches every character but the line feed
Dot(s) == SeqRange(s) \ {"\n"}

\* t stands in s at position i
HasAt(s, i, t) == i + Len(t) - 1 <= Len(s) /\ SubSeq(s, i, i + Len(t) - 1) = t

\* The position after the longest run, of at most max characters of cls,
\* that starts in s at position i
RECURSIVE RunEnd(_, _, _, _)
RunEnd(s, i, cls, max) ==
    IF max = 0 \/ i > Len(s) THEN i
    ELSE IF s[i] \notin cls THEN i
    ELSE RunEnd(s, i + 1, cls, max - 1)

\* '$': the end of the string, or the line feed that ends it
AtEnd(s, i) == i = Len(s) + 1 \/ (i = Len(s) /\ s[i] = "\n")

NoMatch == [matched |-> FALSE, groups |-> <<>>]
Match(groups) == [matched |-> TRUE, groups |-> groups]

S_http == <<"h","t","t","p">>
S_colon_slashes == <<":","/","/">>
S_display == <<"/","d","i","s","p","l","a","y","/">>
S_pageId == <<"p","a","g","e","I","d","=">>
MAX_PORT_DIGITS == 5

\* r'https?://[-\w_.]*:?\d{0,5}(.*)' tried at position i of s.  Nothing
\* after the "://" can fail, so no repetition ever gives back what it took.
url_pattern(s, i) ==
    LET a == i + Len(S_http)
        b == IF a <= Len(s) /\ s[a] = "s" THEN a + 1 ELSE a
        c == b + Len(S_colon_slashes)
        h == RunEnd(s, c, HostChars, Len(s))
        p == IF h <= Len(s) /\ s[h] = ":" THEN h + 1 ELSE h
        d == RunEnd(s, p, DigitChars, MAX_PORT_DIGITS)
        e == RunEnd(s, d, Dot(s), Len(s))
    IN  IF HasAt(s, i, S_http) /\ HasAt(s, b, S_colon_slashes)
        THEN Match(<<SubSeq(s, d, e - 1)>>)
        ELSE NoMatch

\* re.match(url_pattern, url) and re.search(url_pattern, url)
UrlMatch(url) == url_pattern(url, 1)
UrlSearch(url) == \E i \in 1..(Len(url) + 1) : url_pattern(url, i).matched

\* The places of s where 'pageId=(\d+)$' matches after a '.*' from the start
IdStarts(s) ==
    {p \in 1..Len(s) :
        /\ HasAt(s, p, S_pageId)
        /\ \A k \in 1..(p - 1) : s[k] # "\n"
        /\ RunEnd(s, p + Len(S_pageId), DigitChars, Len(s)) > p + Len(S_pageId)
        /\ AtEnd(s, RunEnd(s, p + Len(S_pageId), DigitChars, Len(s)))}

\* Only the last digit is captured, the digits before it going to what
\* precedes the group.
IdPatternLastDigit(s) ==
    IF IdStarts(s) = {} THEN NoMatch
    ELSE LET p == CHOOSE q \in IdStarts(s) : \A r \in IdStarts(s) : r <= q
             d == RunEnd(s, p + Len(S_pageId), DigitChars, Len(s))
         IN  Match(<<SubSeq(s, d - 1, d - 1)>>)

\* r'.*pageId=(\d+)$' matched from the start of s
id_pattern(s) ==
    IF IdStarts(s) = {} THEN NoMatch
    ELSE LET p == CHOOSE q \in IdStarts(s) : \A r \in IdStarts(s) : r <= q
             d == RunEnd(s, p + Len(S_pageId), DigitChars, Len(s))
         IN  Match(<<SubSeq(s, p + Len(S_pageId), d - 1)>>)

\* The space key runs to the last '/' of the line.
DataPatternGreedySpace(s) ==
    LET e == RunEnd(s, Len(S_display) + 1, Dot(s), Len(s))
        slashes == {k \in (Len(S_display) + 1)..(e - 1) : s[k] = "/"}
        sp == CHOOSE k \in slashes : \A m \in slashes : m <= k
    IN  IF HasAt(s, 1, S_display) /\ slashes # {}
        THEN Match(<<SubSeq(s, Len(S_display) + 1, sp - 1), SubSeq(s, sp + 1, e - 1)>>)
        ELSE NoMatch

\* r'/display/([-\w_?~]*)/(.*)' matched from the start of s.  The class of
\* the space key has no '/', so a shorter key never helps.
url_data_pattern(s) ==
    LET sp == RunEnd(s, Len(S_display) + 1, SpaceChars, Len(s))
        e == RunEnd(s, sp + 1, Dot(s), Len(s))
    IN  IF HasAt(s, 1, S_display) /\ sp <= Len(s) /\ s[sp] = "/"
        THEN Match(<<SubSeq(s, Len(S_display) + 1, sp - 1), SubSeq(s, sp + 1, e - 1)>>)
        ELSE NoMatch

\* The outcome of a call: the exception raised, or the value returned
Raised(e) == [raised |-> e, value |-> PyNone]
Returned(v) == [raised |-> NoError, value |-> v]
\* None.group(1)
NoneHasNoGroup == Err("AttributeError", "NoneType object has no attribute group", <<>>)

IsUrlAnywhere(url) == UrlSearch(url)

\* PageManager.is_url
is_url(url) == UrlMatch(url).matched

\* PageManager.is_id_in_url
is_id_in_url(url) == id_pattern(url).matched

\* PageManager.get_id_from_url
get_id_from_url(url) ==
    IF UrlSearch(url)
    THEN IF ~UrlMatch(url).matched THEN Raised(NoneHasNoGroup)
         ELSE IF ~id_pattern(UrlMatch(url).groups[1]).matched
         THEN Raised(NoneHasNoGroup)
         ELSE Returned(id_pattern(UrlMatch(url).groups[1]).groups[1])
    ELSE Raised(Err("Exception", "pageId not found in URL", url))

\* PageManager.get_space_from_url
get_space_from_url(url) ==
    IF UrlSearch(url)
    THEN IF ~UrlMatch(url).matched THEN Raised(NoneHasNoGroup)
         ELSE IF ~url_data_pattern(UrlMatch(url).groups[1]).matched
         THEN Raised(NoneHasNoGroup)
         ELSE Returned(url_data_pattern(UrlMatch(url).groups[1]).groups[1])
    ELSE Raised(Err("Exception", "Confluence space not found in URL", url))

\* PageManager.get_page_title_from_url
get_page_title_from_url(url, formatted) ==
    IF UrlSearch(url)
    THEN IF ~UrlMatch(url).matched THEN Raised(NoneHasNoGroup)
         ELSE IF ~url_data_pattern(UrlMatch(url).groups[1]).matched
         THEN Raised(NoneHasNoGroup)
         ELSE LET title == url_data_pattern(UrlMatch(url).groups[1]).groups[2]
              IN  Returned(IF formatted THEN Replace(title, <<"+">>, <<" ">>)
                           ELSE title)
    ELSE Raised(Err("Exception", "Confluence page title not found in URL", url))

\* The paths, other than the configuration file's, that os.path.exists finds.
ExistingPaths == {<<"t",".","h","t","m">>}

PathExists(p) == p \in ExistingPaths

(***************************************************************************)
(* The inputs: the file at the path, the environment, the caller           *)
(***************************************************************************)

MaxNodes == 4
MaxTokens == 3
MaxParts == 3

CONFIG_PATH == <<"d","/","c",".","j","s","o","n">>

K_a == <<"a">>
K_None == <<"N","o","n","e">>
K_v == <<"$","v">>
K_w == <<"$","w">>
K_n == <<"n">>

TreeKeys == {K_a, K_None}
TreeScalars == {JStr(<<"x">>), JInt(1)}
AllScalars ==
    {JStr(<<"x">>), JStr(<<"1">>), JStr(<<>>), JInt(1), JInt(12), JInt(0 - 3),
     JBool(TRUE), JBool(FALSE), JNull}

\* The sequences of m distinct keys
KeySeqs(m) ==
    {ks \in [1..m -> TreeKeys] : \A i, j \in 1..m : i # j => ks[i] # ks[j]}

Keyed(f, ks) == [i \in 1..Len(f) |-> <<ks[i], f[i]>>]

\* Trees(n): the JSON values of n nodes, a node being a scalar, a list or a
\* dict. Forests(n): the sequences of JSON values with n nodes in all.
RECURSIVE Trees(_), Forests(_)
Trees(n) ==
    (IF n = 1 THEN TreeScalars ELSE {})
    \union {JList(f) : f \in Forests(n - 1)}
    \union UNION {{JObj(Keyed(f, ks)) : ks \in KeySeqs(Len(f))} : f \in Forests(n - 1)}

Forests(n) ==
    IF n = 0 THEN {<<>>}
    ELSE UNION {{<<t>> \o r : t \in Trees(j), r \in Forests(n - j)} : j \in 1..n}

\* Documents of any shape: few nodes over few keys, and one leaf of every kind.
AnyDocs ==
    UNION {Trees(n) : n \in 1..MaxNodes}
    \union AllScalars
    \union {JObj(<<<<k, x>>>>) : k \in {K_a, K_v}, x \in AllScalars}

\* What a configuration file holds besides the mandatory attributes.
Extras ==
    { <<>>,
      << <<K_v, JStr(<<"1">>)>> >>,
      << <<K_w, JStr(<<"2">>)>>, <<K_v, JList(<<JInt(1), JBool(TRUE)>>)>> >>,
      << <<K_v, JStr(<<"1">>)>>, <<K_w, JStr(<<"2">>)>>,
         <<K_n, JObj(<< <<K_v, JStr(<<"3">>)>> >>)>> >>,
      << <<<<"x","$">>, JStr(<<"1">>)>>, <<K_v, JStr(<<"1">>)>> >>,
      << <<K_n, JList(<< JObj(<< <<JSON_ATTR_USER, JStr(<<"e","v","e">>)>> >>) >>)>> >>,
      << <<A_file_name, JStr(<<"x">>)>> >>,
      << <<A_has_json_attribute, JStr(<<"x">>)>> >>,
      << <<A__json_model_dict, JStr(<<"x">>)>> >>,
      << <<A__file_name, JStr(<<"x">>)>> >>,
      << <<A_get_value_from_json_ref, JStr(<<"x">>)>> >> }

\* The names a configuration file has to hold, as the file format gives them
MandatoryNames ==
    <<JSON_ATTR_HOST_URL, JSON_ATTR_USER, JSON_ATTR_PASS, JSON_ATTR_SOURCE,
      JSON_ATTR_SPACE_KEY, JSON_ATTR_PARENT_PAGE_ID, JSON_ATTR_PAGE_TITLE>>

AllMandatory == 1..Len(MandatoryNames)

Layouts == {"in order", "reversed", "nested"}

V_bob == <<"b","o","b">>
V_pw == <<"p","w">>
V_url == <<"h","t","t","p",":","/","/","h">>

Reverse(s) == [i \in 1..Len(s) |-> s[Len(s) + 1 - i]]

\* A configuration file holding the mandatory attributes numbered in S, with
\* the given user, pass and source, laid out as asked, and the extras.
ConfigDoc(S, layout, extra, u, p, src) ==
    LET value == <<JStr(V_url), JStr(u), JStr(p), JStr(src),
                   JStr(<<"S">>), JInt(12), JStr(<<"T">>)>>
        all == [i \in AllMandatory |-> <<i, MandatoryNames[i], value[i]>>]
        Items(T) ==
            LET Kept(e) == e[1] \in S \intersect T
                kept == SelectSeq(all, Kept)
            IN  [i \in 1..Len(kept) |-> <<kept[i][2], kept[i][3]>>]
    IN  CASE layout = "in order" -> JObj(Items(1..7) \o extra)
          [] layout = "reversed" -> JObj(extra \o Reverse(Items(1..7)))
          [] layout = "nested" ->
                JObj(extra \o
                     << <<<<"c">>, JObj(Items(1..3))>>,
                        <<<<"t">>, JList(<<JObj(Items(4..4))>>)>>,
                        <<<<"p">>, JObj(Reverse(Items(5..7)))>> >>)

Tokens == {ENV_PREFIX, <<"E","N","V",".">>, <<"F">>, <<" ">>}

\* The strings of at most n tokens
RECURSIVE TokenStrings(_)
TokenStrings(n) ==
    IF n = 0 THEN {<<>>}
    ELSE TokenStrings(n - 1) \union {t \o s : t \in Tokens, s \in TokenStrings(n - 1)}

CredValues == TokenStrings(MaxTokens) \union {V_bob}
FewCredValues == {V_pw, <<"e","n","v",".","F">>}

EnvNames == {<<"F">>, <<"e","n","v",".","F">>}
V_marker == <<"e","n","v",".","x">>
\* The values a variable may hold; one of them itself holds the sentinel.
EnvValues(name) == IF name = <<"F">> THEN {V_bob, V_marker} ELSE {<<"d","a","n">>}
Environs ==
    UNION {{e \in [N -> UNION {EnvValues(n) : n \in N}] :
                \A n \in N : e[n] \in EnvValues(n)} : N \in SUBSET EnvNames}
DefaultEnviron == [name \in {<<"F">>} |-> V_bob]

Sources ==
    {V_url, <<"h","t","t","p","s",":","/","/","h">>, <<"t",".","h","t","m">>,
     <<"n","o",".","h","t","m">>, <<"f","t","p",":","/","/","h">>, <<>>}

JsonFile(doc) == [kind |-> "json", json |-> doc]
\* A file that json.load cannot parse ("empty": nothing in it), or no file.
OtherFile(kind) == [kind |-> kind, json |-> JNull]

NoRef == [key |-> PyNone, raised |-> NoError, value |-> PNoneType]

\* PageManager.__init__ up to its two loads: nothing was sent to the server
NoResponse == [status |-> 0, json |-> [kind |-> "none"]]
NoResult == [raised |-> NoError, value |-> PyNone]
NothingSent ==
    /\ response = NoResponse
    /\ outcome = NoResult
    /\ is_authenticated = FALSE
    /\ log = <<>>
    /\ _html_template = PyNone

InitConstruction ==
    /\ \/ /\ entry \in {"Config", "PageManager"}
          /\ fs \in {OtherFile(k) : k \in {"absent", "empty", "text"}}
          /\ environ = DefaultEnviron
       \/ /\ entry = "Config"
          /\ fs \in {JsonFile(doc) : doc \in AnyDocs}
          /\ environ = DefaultEnviron
       \/ /\ entry \in {"Config", "PageManager"}
          /\ fs \in {JsonFile(ConfigDoc(S, layout, extra, V_bob, V_pw, V_url)) :
                        S \in SUBSET AllMandatory, layout \in Layouts, extra \in Extras}
          /\ environ = DefaultEnviron
       \/ /\ entry = "PageManager"
          /\ fs \in {JsonFile(ConfigDoc(AllMandatory, "in order", <<>>, u, p, V_url)) :
                        u \in CredValues, p \in FewCredValues}
                    \union
                    {JsonFile(ConfigDoc(AllMandatory, "in order", <<>>, u, p, V_url)) :
                        u \in FewCredValues, p \in CredValues}
          /\ environ \in Environs
       \/ /\ entry = "PageManager"
          /\ fs \in {JsonFile(ConfigDoc(AllMandatory, "nested", <<>>, V_bob, V_pw, src)) :
                        src \in Sources}
          /\ environ = DefaultEnviron
    /\ pc = "init"
    /\ json_data_obj = <<>>
    /\ template_variables = <<>>
    /\ credentials = <<>>
    /\ template_source = PyNone
    /\ trace = <<>>
    /\ error = NoError
    /\ ref = NoRef
    /\ page_url = <<>>
    /\ out = <<>>
    /\ NothingSent

\* The strings handed to the URL helpers: what comes before the path, in
\* all its shapes, followed by a few paths, and a few such beginnings (or
\* none) followed by any path of at most MaxParts parts.
Leads == {<<>>, <<"x">>}
Schemes == {S_http \o S_colon_slashes, S_http \o <<"s">> \o S_colon_slashes,
            S_http \o <<":","/">>, <<"H","T","T","P">> \o S_colon_slashes}
Hosts == {<<>>, <<"h">>, <<"h","-","1",".","c","_","d">>}
Ports == {<<>>, <<":">>, <<":","8","0","9","0">>, <<":","1","2","3","4","5","6">>}
Beginnings == {l \o sc \o h \o p : l \in Leads, sc \in Schemes, h \in Hosts, p \in Ports}
FewBeginnings ==
    {<<>>, S_http \o S_colon_slashes \o <<"h",":","8","0","9","0">>,
     S_http \o <<"s">> \o S_colon_slashes \o <<"h","-","1",".","c","_","d">>}

P_space == S_display \o <<"I","I","C","/">>
P_personal == <<"~","u","/">>
P_title == <<"I","+","I","C">>
P_viewpage == <<"/","p","a","g","e","s","/","v","i","e","w","p","a","g","e",".",
                "a","c","t","i","o","n","?">> \o S_pageId
P_digits == <<"0","2">>
P_more == <<"&","x","=","1">>
P_line == <<"\n">>
Parts == {S_display, P_space, P_personal, P_title, P_viewpage, S_pageId,
          P_digits, P_more, P_line}

\* The paths of at most n parts
RECURSIVE Paths(_)
Paths(n) ==
    IF n = 0 THEN {<<>>}
    ELSE Paths(n - 1) \union {t \o s : t \in Parts, s \in Paths(n - 1)}

FewPaths == {<<>>, P_space \o P_title, P_viewpage \o P_digits,
             <<"/","j","o","b","/">>}

Urls ==
    {b \o t : b \in Beginnings, t \in FewPaths}
        \union {b \o t : b \in FewBeginnings, t \in Paths(MaxParts)}
        \union {<<"n","o","t"," ","a"," ","u","r","l">>}

NoFile == [kind |-> "none", json |-> JNull]

InitUrl ==
    /\ entry = "Url"
    /\ fs = NoFile
    /\ environ = DefaultEnviron
    /\ pc = "url"
    /\ json_data_obj = <<>>
    /\ template_variables = <<>>
    /\ credentials = <<>>
    /\ template_source = PyNone
    /\ trace = <<>>
    /\ error = NoError
    /\ ref = NoRef
    /\ page_url \in Urls
    /\ out = <<>>
    /\ NothingSent

Init == InitConstruction \/ InitUrl

(***************************************************************************)
(* The steps of constructing a Config or a PageManager, and the lookup     *)
(***************************************************************************)

FileFoundAlways(f) == TRUE

\* os.path.exists(json_file_name)
FileFound(f) == f.kind # "absent"

ParsesAlways(f) == TRUE

\* open(json_file_name) and json.load succeed
Parses(f) == f.kind = "json"

Fail(e) == error' = e /\ pc' = "failed"

\* JsonDataFile.__init__ and _load_json_content
LoadJsonContent ==
    /\ pc = "init"
    /\ IF ~FileFound(fs)
       THEN /\ json_data_obj' = NewJsonDataFile
            /\ trace' = trace \o <<"_load_json_content", "os.path.exists">>
            /\ Fail(Err("IOError", "does not exist", <<>>))
       ELSE IF ~Parses(fs)
       THEN /\ json_data_obj' = NewJsonDataFile
            /\ trace' = trace \o <<"_load_json_content", "os.path.exists", "open">>
            /\ Fail(Err("Exception", "Invalid JSON format", <<>>))
       ELSE LET model == _break_down_json_data(fs.json)
                loaded == DictSet(DictSet(NewJsonDataFile, A__file_name,
                                          PStr(Basename(CONFIG_PATH))),
                                  A__json_model_dict, PDict(model))
                set == SetAttrs(model, loaded)
            IN  /\ json_data_obj' = set.inst
                /\ trace' = trace \o <<"_load_json_content", "os.path.exists", "open",
                                       "_break_down_json_data", "setattr">>
                /\ error' = set.error
                /\ pc' = IF set.error = NoError THEN "json_loaded" ELSE "failed"
    /\ UNCHANGED <<apivars, page_url, out, entry, fs, environ, template_variables, credentials,
                   template_source, ref>>

\* Config._validate_mandatory_configuration
ValidateMandatoryConfiguration ==
    /\ pc = "json_loaded"
    /\ trace' = Append(trace, "_validate_mandatory_configuration")
    /\ error' = MandatoryCheckFrom(1, json_data_obj)
    /\ pc' = IF MandatoryCheckFrom(1, json_data_obj) = NoError
             THEN "mandatory_ok" ELSE "failed"
    /\ UNCHANGED <<apivars, page_url, out, entry, fs, environ, json_data_obj, template_variables,
                   credentials, template_source, ref>>

\* Config._validate_template_variables, which ends Config.__init__
ValidateTemplateVariables ==
    /\ pc = "mandatory_ok"
    /\ trace' = Append(trace, "_validate_template_variables")
    /\ template_variables' =
           TemplateVariablesOf(GetAttr(json_data_obj, A_json_model_dict).d, <<>>)
    /\ pc' = "config_loaded"
    /\ UNCHANGED <<apivars, page_url, out, entry, fs, environ, json_data_obj, credentials,
                   template_source, error, ref>>

\* PageManager._load_config_file, after Config(config_file): the user, then
\* the password
LoadCredentials ==
    /\ pc = "config_loaded"
    /\ entry = "PageManager"
    /\ trace' = Append(trace, "_load_config_file")
    /\ LET u == get_value_from_json_ref(json_data_obj, JSON_ATTR_USER)
           p == get_value_from_json_ref(json_data_obj, JSON_ATTR_PASS)
           ru == Resolve(environ, u.value.s)
           rp == Resolve(environ, p.value.s)
       IN  IF u.raised # NoError
           THEN credentials' = credentials /\ Fail(u.raised)
           ELSE IF ru.error # NoError
           THEN credentials' = <<<<K_user, ru.cred>>>> /\ Fail(ru.error)
           ELSE IF p.raised # NoError
           THEN credentials' = <<<<K_user, ru.cred>>>> /\ Fail(p.raised)
           ELSE /\ credentials' = <<<<K_user, ru.cred>>, <<K_password, rp.cred>>>>
                /\ error' = rp.error
                /\ pc' = IF rp.error = NoError THEN "creds_loaded" ELSE "failed"
    /\ UNCHANGED <<apivars, page_url, out, entry, fs, environ, json_data_obj, template_variables,
                   template_source, ref>>

\* PageManager._load_template, which ends PageManager.__init__
LoadTemplate ==
    /\ pc = "creds_loaded"
    /\ trace' = Append(trace, "_load_template")
    /\ LET src == get_value_from_json_ref(json_data_obj, JSON_ATTR_SOURCE)
       IN  IF src.raised # NoError
           THEN template_source' = template_source /\ Fail(src.raised)
           ELSE IF ~is_url(src.value.s) /\ ~PathExists(src.value.s)
           THEN template_source' = template_source /\ Fail(Err("Exception", "", <<>>))
           ELSE /\ template_source' = src.value.s
                /\ pc' = "constructed"
                /\ error' = error
    /\ UNCHANGED <<apivars, page_url, out, entry, fs, environ, json_data_obj, template_variables,
                   credentials, ref>>

\* The names a caller asks for
ProbeKeys ==
    {JSON_ATTR_USER, JSON_ATTR_PARENT_PAGE_ID, K_v, K_n, K_None,
     <<"n","o","k","e","y">>, A_file_name, A_has_json_attribute,
     A__json_model_dict, A__file_name, A__doc__}

\* Config.get_value_from_json_variable(key), on a Config that was constructed
GetValueFromJsonVariable(key) ==
    /\ pc = "config_loaded"
    /\ entry = "Config"
    /\ trace' = trace
    /\ ref' = [key |-> key,
               raised |-> get_value_from_json_ref(json_data_obj, key).raised,
               value |-> get_value_from_json_ref(json_data_obj, key).value]
    /\ UNCHANGED <<apivars, page_url, out, entry, fs, environ, pc, json_data_obj, template_variables,
                   credentials, template_source, error>>

\* The URL helpers are static methods that keep nothing: they are called in
\* turn on the one string, and out keeps what each of them gave.
Called(name) == name \in DOMAIN out
Call(name, before, result) ==
    /\ DOMAIN out = before
    /\ out' = out @@ (name :> result)
    /\ UNCHANGED <<apivars, page_url, entry, fs, environ, pc, json_data_obj, template_variables,
                   credentials, template_source, trace, error, ref>>

IsUrl ==
    /\ pc = "url"
    /\ Call("is_url", {}, is_url(page_url))

IsIdInUrl ==
    /\ pc = "url"
    /\ Call("is_id_in_url", {"is_url"}, is_id_in_url(page_url))

GetIdFromUrl ==
    /\ pc = "url"
    /\ Call("get_id_from_url", {"is_url", "is_id_in_url"}, get_id_from_url(page_url))

GetSpaceFromUrl ==
    /\ pc = "url"
    /\ Call("get_space_from_url", {"is_url", "is_id_in_url", "get_id_from_url"},
            get_space_from_url(page_url))

TitleName(formatted) == IF formatted THEN "title, formatted" ELSE "title"

GetPageTitleFromUrl(formatted) ==
    /\ pc = "url"
    /\ Called("get_space_from_url")
    /\ ~Called(TitleName(formatted))
    /\ Call(TitleName(formatted), DOMAIN out, get_page_title_from_url(page_url, formatted))

Next ==
    \/ LoadJsonContent
    \/ ValidateMandatoryConfiguration
    \/ ValidateTemplateVariables
    \/ LoadCredentials
    \/ LoadTemplate
    \/ \E key \in ProbeKeys : GetValueFromJsonVariable(key)
    \/ IsUrl
    \/ IsIdInUrl
    \/ GetIdFromUrl
    \/ GetSpaceFromUrl
    \/ \E formatted \in BOOLEAN : GetPageTitleFromUrl(formatted)

Spec == Init /\ [][Next]_vars

(***************************************************************************)
(* confluence/api.py: the responses a ConfluenceClient handles and the     *)
(* Page it builds from them                                                *)
(***************************************************************************)

\* None, where the name of a missing value is expected
Nothing == "<None>"
\* An attribute that was never assigned: reading it is an AttributeError
Unset == <<"<unset>">>

\* A JSON object of a response is the set of the paths it holds; the value
\* at a path is named by the object and the path.
JsonAt(where, path) == <<where, path>>
Body(keys, results) == [kind |-> "dict", keys |-> keys, results |-> results]
\* A response whose body is no JSON: response.json() raises ValueError
NoJson == [kind |-> "none"]
NoJsonError == Err("ValueError", "No JSON object could be decoded", <<>>)

\* Page._retrieve_results_from_json
_retrieve_results_from_json(json_data_model) ==
    IF "results" \in json_data_model.keys
    THEN IF json_data_model.results # <<>>
         THEN Returned([where |-> "results[0]", keys |-> json_data_model.results[1]])
         ELSE Raised(Err("IndexError", "API response 'results' is empty", <<>>))
    ELSE Returned([where |-> "response", keys |-> json_data_model.keys])

\* Page._validate_links_section: the missing value it returns
_validate_links_section(json_data_response) ==
    IF "_links" \in json_data_response.keys
    THEN IF "_links.tinyui" \in json_data_response.keys
         THEN Nothing
         ELSE "_links.tinyui"
    ELSE "_links"

\* Page._validate_body_section: the missing value it returns
_validate_body_section(json_data_response) ==
    IF "body" \in json_data_response.keys
    THEN IF "body.storage" \in json_data_response.keys
         THEN IF "body.storage.value" \in json_data_response.keys
              THEN Nothing
              ELSE "body.storage.value"
         ELSE "body.storage"
    ELSE "body"

\* Page.__init__ and _retrieve_values_from_json: each assignment to
\* missing_value in turn, the last two made whatever the sections gave;
\* then the attributes the properties read.
Page(json_data_model) ==
    LET results == _retrieve_results_from_json(json_data_model)
        json_data_response == results.value
        Value(path) ==
            IF path \in json_data_response.keys
            THEN JsonAt(json_data_response.where, path) ELSE PyNone
        after_id == IF "id" \in json_data_response.keys THEN Nothing ELSE "id"
        after_title ==
            IF "title" \in json_data_response.keys THEN after_id ELSE "title"
        after_space ==
            IF "space" \in json_data_response.keys
            THEN IF "space.key" \in json_data_response.keys
                 THEN after_title ELSE "space.key"
            ELSE "space"
        after_body == _validate_body_section(json_data_response)
        missing_value == _validate_links_section(json_data_response)
    IN  IF results.raised # NoError THEN Raised(results.raised)
        ELSE IF missing_value # Nothing
        THEN Raised(Err("Exception", "there is a missing value in json data",
                        <<missing_value>>))
        ELSE Returned(
                 [id_number |-> IF "id" \in json_data_response.keys
                                THEN Value("id") ELSE Unset,
                  title |-> Value("title"),
                  space_key |-> Value("space.key"),
                  content |-> Value("body.storage.value"),
                  permanent_link |-> Value("_links.tinyui"),
                  base_url |-> IF "_links.base" \in json_data_model.keys
                               THEN JsonAt("response", "_links.base") ELSE PyNone])

\* ContentError.__init__ and _retrieve_values_from_json: the error it raises
ContentError(json_data) ==
    LET after_message == IF "message" \in json_data.keys THEN Nothing ELSE "message"
        missing_value ==
            IF "statusCode" \in json_data.keys THEN after_message ELSE "statusCode"
    IN  IF missing_value # Nothing
        THEN Err("Exception", "there is a missing value in json data", <<missing_value>>)
        ELSE NoError

\* ConfluenceClient._handle_response_errors: the error it raises, if any.
\* For 404, 409 and 413 an Exception is built and dropped.
_handle_response_errors(resp) ==
    IF resp.status = 400
    THEN IF resp.json.kind = "none" THEN NoJsonError
         ELSE IF ContentError(resp.json) # NoError THEN ContentError(resp.json)
         ELSE Err("ConfluenceError", "{} (code:{})",
                  <<IF "message" \in resp.json.keys
                    THEN JsonAt("response", "message") ELSE PyNone,
                    JsonAt("response", "statusCode")>>)
    ELSE IF resp.status = 403
    THEN Err("ConfluencePermissionError", "User has insufficient permissions", <<>>)
    ELSE NoError

\* ConfluenceClient._get and _post, once the server answered
_get(resp) ==
    IF _handle_response_errors(resp) # NoError
    THEN Raised(_handle_response_errors(resp))
    ELSE IF resp.json.kind = "none" THEN Raised(NoJsonError)
    ELSE Returned(resp.json)

_post(resp) == _get(resp)

\* ConfluenceClient._delete, once the server answered
_delete(resp) ==
    IF _handle_response_errors(resp) # NoError
    THEN Raised(_handle_response_errors(resp))
    ELSE Returned(PyNone)

\* create_page, get_content and get_page_from_title end alike
PageOf(json) == IF json.raised # NoError THEN json ELSE Page(json.value)
create_page(resp) == PageOf(_post(resp))
get_content(resp) == PageOf(_get(resp))
get_page_from_title(resp) == PageOf(_get(resp))
delete_content(resp) == _delete(resp)

\* The responses of a server
PageFields ==
    {"id", "title", "space", "space.key", "body", "body.storage", "body.storage.value",
     "_links", "_links.tinyui", "_links.base"}
RequiredFields == PageFields \ {"_links.base"}
Parent(path) ==
    CASE path = "space.key" -> "space"
      [] path = "body.storage" -> "body"
      [] path = "body.storage.value" -> "body.storage"
      [] path \in {"_links.tinyui", "_links.base"} -> "_links"
      [] OTHER -> ""
PageObjects == {F \in SUBSET PageFields : \A f \in F : Parent(f) \in F \union {""}}
Bodies ==
    {Body(F, <<>>) : F \in PageObjects}
        \union {Body(L \union {"results"}, rs) :
                    L \in {{}, {"_links", "_links.base"}},
                    rs \in {<<>>, <<PageFields>>, <<RequiredFields \ {"id"}>>,
                            <<{"_links", "_links.tinyui"}>>}}
        \union {Body(K, <<>>) : K \in SUBSET {"message", "statusCode"}}
        \union {NoJson}
Statuses == {200, 400, 403, 404, 409, 413, 500}
Responses == {[status |-> st, json |-> b] : st \in Statuses, b \in Bodies}

InitClient ==
    /\ entry = "ConfluenceClient"
    /\ fs = NoFile
    /\ environ = DefaultEnviron
    /\ pc = "client"
    /\ json_data_obj = <<>>
    /\ template_variables = <<>>
    /\ credentials = <<>>
    /\ template_source = PyNone
    /\ trace = <<>>
    /\ error = NoError
    /\ ref = NoRef
    /\ page_url = <<>>
    /\ out = <<>>
    /\ response \in Responses
    /\ outcome = NoResult
    /\ is_authenticated = FALSE
    /\ log = <<>>
    /\ _html_template = PyNone

\* What the log keeps of a request: its method, what it carried, and
\* whether the PageManager was authenticated when it was sent
Request(method, data, authenticated) ==
    [event |-> "request", method |-> method, data |-> data,
     authenticated |-> authenticated]

\* One operation of a ConfluenceClient inside its with block
ClientCall(name, method, returned) ==
    /\ trace' = Append(trace, name)
    /\ log' = Append(log, Request(method, PyNone, is_authenticated))
    /\ outcome' = returned
    /\ pc' = "client_done"
    /\ UNCHANGED <<entry, fs, environ, json_data_obj, template_variables, credentials,
                   template_source, error, ref, page_url, out, response,
                   is_authenticated, _html_template>>

CreatePage ==
    /\ pc = "client"
    /\ ClientCall("create_page", "POST", create_page(response))

GetContent ==
    /\ pc = "client"
    /\ ClientCall("get_content", "GET", get_content(response))

GetPageFromTitle ==
    /\ pc = "client"
    /\ ClientCall("get_page_from_title", "GET", get_page_from_title(response))

DeleteContent ==
    /\ pc = "client"
    /\ ClientCall("delete_content", "DELETE", delete_content(response))

NextClient == CreatePage \/ GetContent \/ GetPageFromTitle \/ DeleteContent

SpecClient == InitClient /\ [][NextClient]_vars

(***************************************************************************)
(* app/page_manager.py: the operations of a constructed PageManager        *)
(***************************************************************************)

HTTP_CODE_OK == 200

AuthAcceptsAnyStatus(status) == TRUE

\* Auth.authenticate, once the host answered the GET
Auth_authenticate(status) == status = HTTP_CODE_OK

\* What an operation works on and leaves: the attributes of the PageManager
\* it changes and the log; and what it gives back with them.
Manager(authenticated, sent, html) ==
    [is_authenticated |-> authenticated, log |-> sent, _html_template |-> html]
Done(m, ret) == [m |-> m, ret |-> ret]

Logged(m, e) == [m EXCEPT !.log = Append(@, e)]
\* with api.ConfluenceClient(...) as confluence_instance: a session is opened
OpenSession(m) == Logged(m, [event |-> "session"])
Send(m, method, data) ==
    Logged(OpenSession(m), Request(method, data, m.is_authenticated))

AuthenticationError ==
    Err("AssertionError", "Authentication Error: check that user and password are correct",
        <<>>)

AuthenticateAlwaysProbes(m, net) ==
    [Logged(m, [event |-> "probe", status |-> net.probe])
        EXCEPT !.is_authenticated = Auth_authenticate(net.probe)]

\* The decorator authenticate: wrapper(self, ...) up to where it calls the
\* decorated function or raises. self.is_authenticated is left as it was
\* if it held, else as the probe sets it.
authenticate(m, net) ==
    IF m.is_authenticated THEN m
    ELSE [Logged(m, [event |-> "probe", status |-> net.probe])
            EXCEPT !.is_authenticated = Auth_authenticate(net.probe)]

\* ... and from there: what the decorated function gives, called on self
\* when self.is_authenticated holds, else the AssertionError
Wrapper(self, decorated) ==
    IF self.is_authenticated THEN decorated
    ELSE Done(self, Raised(AuthenticationError))

S_None == <<"N","o","n","e">>
\* str(content): the text the response holds at body.storage.value, or the
\* text of None
ContentStr(content, resp) == IF content = PyNone THEN S_None ELSE resp.json.html

\* PageManager.get_page_content_by_title, which is not decorated: what it
\* does with the Page, or the exception, that get_page_from_title gave
TitleContent(sent, page_to_search, resp) ==
    IF page_to_search.raised # NoError THEN Done(sent, page_to_search)
    ELSE Done(sent, Returned(ContentStr(page_to_search.value.content, resp)))

get_page_content_by_title(m, net, title, space) ==
    TitleContent(Send(m, "GET", <<title, space>>), get_page_from_title(net.get), net.get)

\* PageManager.get_page_content_by_id: what its try block does with the
\* Page, or the exception, that get_content gave
IdContent(sent, page, resp, page_id) ==
    IF page.raised # NoError
    THEN Done(sent, Raised(Err("AssertionError", "could not be retrieved from Server",
                               page_id)))
    ELSE Done(sent, Returned(ContentStr(page.value.content, resp)))

get_page_content_by_id(m, net, page_id) ==
    LET self == authenticate(m, net)
    IN  Wrapper(self, IdContent(Send(self, "GET", page_id), get_content(net.get),
                                net.get, page_id))

\* PageManager.get_page_content_by_url: the branch it takes, with what the
\* extractors give in the branch that calls them
Route(self, n, url, page_id, space_key, page_title) ==
    IF ~is_url(url)
    THEN Done(self, Raised(Err("Exception", "Given value is not a valid URL", url)))
    ELSE IF is_id_in_url(url)
    THEN IF page_id.raised # NoError THEN Done(self, page_id)
         ELSE get_page_content_by_id(self, n, page_id.value)
    ELSE IF space_key.raised # NoError THEN Done(self, space_key)
    ELSE IF page_title.raised # NoError THEN Done(self, page_title)
    ELSE get_page_content_by_title(self, n, page_title.value, space_key.value)

get_page_content_by_url(m, net, url) ==
    LET self == authenticate(m, net)
    IN  Wrapper(self, Route(self, net, url, get_id_from_url(url),
                            get_space_from_url(url),
                            get_page_title_from_url(url, TRUE)))

\* PageManager._replace_variables_in_template: one str.replace for each
\* item of template_variables, in their order, on what the last one left
RECURSIVE _replace_variables_in_template(_, _)
_replace_variables_in_template(html, items) ==
    IF items = <<>> THEN html
    ELSE _replace_variables_in_template(
             IF Contains(html, items[1][1])
             THEN Replace(html, items[1][1], items[1][2]) ELSE html,
             Tail(items))

\* PageManager._setup_html_template, once self._html_template holds the
\* template: an exception of get_page_content_by_url leaves it as it was
Substituted(got, variables) ==
    IF got.ret.raised # NoError THEN got
    ELSE Done([got.m EXCEPT !._html_template =
                   _replace_variables_in_template(got.ret.value, variables)],
              Returned(PyNone))

\* PageManager._setup_html_template
_setup_html_template(m, net, source, variables) ==
    Substituted(IF m._html_template = PyNone
                THEN get_page_content_by_url(m, net, source)
                ELSE Done(m, Returned(m._html_template)),
                variables)

\* PageManager.generate_page, once the template is set up: the with block
Created(set, confluence_page) ==
    IF set.ret.raised # NoError THEN set
    ELSE IF confluence_page.raised # NoError
    THEN Done(Send(set.m, "POST", set.m._html_template),
              Raised(Err("AssertionError", "Confluence page could not be created", <<>>)))
    ELSE Done(Send(set.m, "POST", set.m._html_template), confluence_page)

\* PageManager.generate_page
generate_page(m, net, source, variables) ==
    LET self == authenticate(m, net)
    IN  Wrapper(self, Created(_setup_html_template(self, net, source, variables),
                              create_page(net.post)))

\* PageManager.delete_page: what its try block does with what
\* delete_content gave
Deleted(sent, deleted) ==
    IF deleted.raised # NoError
    THEN Done(sent, Raised(Err("AssertionError", "Confluence page could not be deleted",
                               <<>>)))
    ELSE Done(sent, Returned(PyNone))

delete_page(m, net, page_id) ==
    LET self == authenticate(m, net)
    IN  Wrapper(self, Deleted(Send(self, "DELETE", page_id),
                              delete_content(net.delete)))

\* The configuration files of the PageManagers that are put to work: their
\* template variables, in both orders, and their sources
T_Var == <<"$","V">>
T_Variable == <<"$","V","a">>
T_Other == <<"$","W">>
TemplateExtras ==
    {<<>>,
     << <<T_Var, JStr(<<"x">>)>>, <<T_Variable, JStr(<<"y">>)>> >>,
     << <<T_Variable, JStr(<<"y">>)>>, <<T_Var, JStr(<<"x">>)>> >>,
     << <<T_Var, JStr(T_Other)>>, <<T_Other, JStr(<<"z">>)>> >>,
     << <<T_Other, JStr(<<"z">>)>>, <<T_Var, JStr(T_Other)>> >>}
U_host_port == S_http \o S_colon_slashes \o <<"h",":","8","0","9","0">>
U_display_page == U_host_port \o P_space \o P_title
U_page_id == U_host_port \o P_viewpage \o P_digits
U_bare_page_id ==
    S_http \o <<"s">> \o S_colon_slashes \o <<"h","-","1",".","c","_","d">>
        \o S_pageId \o P_digits
V_file == <<"t",".","h","t","m">>
ManagerConfigs ==
    {ConfigDoc(AllMandatory, "in order", extra, V_bob, V_pw, U_display_page) :
        extra \in TemplateExtras}
        \union {ConfigDoc(AllMandatory, "in order", <<>>, V_bob, V_pw, src) :
                    src \in {U_page_id, V_file}}

\* What the server answers
ServedBody(keys, html) ==
    [kind |-> "dict", keys |-> keys, results |-> <<>>, html |-> html]
T_html == <<"<">> \o T_Variable \o <<" ">> \o T_Var \o <<" ">> \o T_Other \o <<">">>
Answer(status, json) == [status |-> status, json |-> json]
ProbeStatuses == {HTTP_CODE_OK, 401}
GetAnswers ==
    {Answer(200, ServedBody(PageFields, T_html)),
     Answer(200, ServedBody(PageFields \ {"body", "body.storage", "body.storage.value"},
                            T_html)),
     Answer(404, NoJson)}
PostAnswers ==
    {Answer(200, ServedBody(PageFields, T_html)),
     Answer(400, Body({"message", "statusCode"}, <<>>))}
DeleteAnswers == {Answer(204, NoJson), Answer(403, NoJson)}
\* What the server answers during one operation: to the probe, and to the
\* requests the operation may send
Net(probe, get, post, delete) ==
    [probe |-> probe, get |-> get, post |-> post, delete |-> delete]
NoAnswer == Answer(0, NoJson)

\* What the callers pass
PageUrls == {U_display_page, U_page_id, U_bare_page_id, U_host_port, V_file}
PageIds == {P_digits}

MaxCalls == 2

InitManager ==
    /\ entry = "PageManager"
    /\ fs \in {JsonFile(doc) : doc \in ManagerConfigs}
    /\ environ = DefaultEnviron
    /\ pc = "init"
    /\ json_data_obj = <<>>
    /\ template_variables = <<>>
    /\ credentials = <<>>
    /\ template_source = PyNone
    /\ trace = <<>>
    /\ error = NoError
    /\ ref = NoRef
    /\ page_url = <<>>
    /\ out = <<>>
    /\ NothingSent

IsCall(e) == e.event = "call"
CallsMade == Len(SelectSeq(log, IsCall))
\* self, as a call of the operation finds it; the log notes the call
Self(name, args) ==
    Manager(is_authenticated,
            Append(log, [event |-> "call", name |-> name, args |-> args]),
            _html_template)

\* One call of a public operation of the PageManager main constructed
ManagerCall(done) ==
    /\ CallsMade < MaxCalls
    /\ is_authenticated' = done.m.is_authenticated
    /\ log' = done.m.log
    /\ _html_template' = done.m._html_template
    /\ outcome' = done.ret
    /\ UNCHANGED <<entry, fs, environ, pc, json_data_obj, template_variables,
                   credentials, template_source, trace, error, ref, page_url, out,
                   response>>

GeneratePage ==
    /\ pc = "constructed"
    /\ \E probe \in ProbeStatuses, get \in GetAnswers, post \in PostAnswers :
           ManagerCall(generate_page(Self("generate_page", <<>>),
                                     Net(probe, get, post, NoAnswer),
                                     template_source, template_variables))

DeletePage ==
    /\ pc = "constructed"
    /\ \E probe \in ProbeStatuses, delete \in DeleteAnswers, page_id \in PageIds :
           ManagerCall(delete_page(Self("delete_page", page_id),
                                   Net(probe, NoAnswer, NoAnswer, delete), page_id))

GetPageContentById ==
    /\ pc = "constructed"
    /\ \E probe \in ProbeStatuses, get \in GetAnswers, page_id \in PageIds :
           ManagerCall(get_page_content_by_id(Self("get_page_content_by_id", page_id),
                                              Net(probe, get, NoAnswer, NoAnswer),
                                              page_id))

GetPageContentByUrl ==
    /\ pc = "constructed"
    /\ \E probe \in ProbeStatuses, get \in GetAnswers, url \in PageUrls :
           ManagerCall(get_page_content_by_url(Self("get_page_content_by_url", url),
                                               Net(probe, get, NoAnswer, NoAnswer), url))

GetPageContentByTitle ==
    /\ pc = "constructed"
    /\ \E get \in GetAnswers :
           ManagerCall(get_page_content_by_title(Self("get_page_content_by_title", <<>>),
                                                 Net(0, get, NoAnswer, NoAnswer),
                                                 <<"I"," ","I","C">>, <<"I","I","C">>))

NextManager ==
    \/ LoadJsonContent
    \/ ValidateMandatoryConfiguration
    \/ ValidateTemplateVariables
    \/ LoadCredentials
    \/ LoadTemplate
    \/ GeneratePage
    \/ DeletePage
    \/ GetPageContentById
    \/ GetPageContentByUrl
    \/ GetPageContentByTitle

SpecManager == InitManager /\ [][NextManager]_vars

(***************************************************************************)
(* Properties                                                              *)
(***************************************************************************)

\* The scalar leaves of a JSON value in the order of a walk that takes a
\* dict's items in insertion order and a list's elements in index order,
\* each leaf with the key of the nearest enclosing dict item (ctx: the key
\* above the value, PyNone when there is none).
RECURSIVE Leaves(_, _)
RECURSIVE LeavesOfItems(_)
RECURSIVE LeavesOfValues(_, _)
LeavesOfItems(items) ==
    IF items = <<>> THEN <<>>
    ELSE Leaves(Head(items)[2], Head(items)[1]) \o LeavesOfItems(Tail(items))
LeavesOfValues(values, ctx) ==
    IF values = <<>> THEN <<>>
    ELSE Leaves(Head(values), ctx) \o LeavesOfValues(Tail(values), ctx)
Leaves(x, ctx) ==
    IF x.t = "dict" THEN LeavesOfItems(x.kv)
    ELSE IF x.t = "list" THEN LeavesOfValues(x.el, ctx)
    ELSE <<<<ctx, x>>>>

DocLeaves == Leaves(fs.json, PyNone)

\* self._json_model_dict of the JsonDataFile
ModelDict == DictGet(json_data_obj, A__json_model_dict)

\* The file was parsed and flattened, and the mapping is still in place.
Flattened == pc # "init" /\ fs.kind = "json" /\ ModelDict.ty = "dict"

\* The j-th leaf is the last one visited among those with its key, the keys
\* compared as they are / in their string form.
LastWithKey(lv, j) == \A m \in (j + 1)..Len(lv) : lv[m][1] # lv[j][1]
LastWithStrKey(lv, j) ==
    \A m \in (j + 1)..Len(lv) : StrKey(lv[m][1]) # StrKey(lv[j][1])

\* C1 as stated: every entry flat[k] is the string form of the last-visited
\* leaf whose key context is the key k itself.
C1_LastLeafOfKeyWins ==
    Flattened =>
        \A i \in 1..Len(ModelDict.d) :
            \E j \in 1..Len(DocLeaves) :
                /\ DocLeaves[j][1] = ModelDict.d[i][1]
                /\ LastWithKey(DocLeaves, j)
                /\ ModelDict.d[i][2] = PyStr(DocLeaves[j][2])

\* C1, amended: the flat mapping has exactly the string forms of the leaves'
\* key contexts as keys (a leaf under no dict key has the context "None"),
\* and flat[k] is the string form of the last-visited leaf whose key context
\* has the string form k.
C1_LastLeafOfStrKeyWins ==
    Flattened =>
        /\ {ModelDict.d[i][1] : i \in 1..Len(ModelDict.d)}
               = {StrKey(DocLeaves[j][1]) : j \in 1..Len(DocLeaves)}
        /\ \A j \in 1..Len(DocLeaves) :
               LastWithStrKey(DocLeaves, j) =>
                   DictGet(ModelDict.d, StrKey(DocLeaves[j][1])) = PyStr(DocLeaves[j][2])

\* A later leaf has overwritten an earlier one of another value, and one of
\* the two is an element of a list.
C1_Witness ==
    /\ Flattened
    /\ fs.json.t = "dict"
    /\ \E j, m \in 1..Len(DocLeaves) :
           /\ j < m
           /\ DocLeaves[j][1] = DocLeaves[m][1]
           /\ PyStr(DocLeaves[j][2]) # PyStr(DocLeaves[m][2])
           /\ DictGet(ModelDict.d, StrKey(DocLeaves[m][1])) = PyStr(DocLeaves[m][2])
    /\ \E i \in 1..Len(fs.json.kv) : fs.json.kv[i][2].t = "list"

NoSharedKey(lv) == \A j, m \in 1..Len(lv) : j # m => lv[j][1] # lv[m][1]
NoSharedStrKey(lv) ==
    \A j, m \in 1..Len(lv) : j # m => StrKey(lv[j][1]) # StrKey(lv[m][1])

\* C2 as stated: when no two leaves have the same key context, the flat
\* mapping has one entry per leaf and every leaf that has a key is found
\* under it with its string form.
C2_NoCollisionNoLoss ==
    (Flattened /\ NoSharedKey(DocLeaves)) =>
        /\ Len(ModelDict.d) = Len(DocLeaves)
        /\ \A j \in 1..Len(DocLeaves) :
               DocLeaves[j][1] # PyNone =>
                   /\ DictHas(ModelDict.d, DocLeaves[j][1])
                   /\ DictGet(ModelDict.d, DocLeaves[j][1]) = PyStr(DocLeaves[j][2])

\* C2, amended: when no two leaves have the same key context in string form
\* (a leaf under no dict key has the context "None"), the flat mapping has
\* one entry per leaf, its keys are the leaves' key contexts, and every leaf
\* is found under its key with its string form.
C2_NoStrCollisionNoLoss ==
    (Flattened /\ NoSharedStrKey(DocLeaves)) =>
        /\ Len(ModelDict.d) = Len(DocLeaves)
        /\ {ModelDict.d[i][1] : i \in 1..Len(ModelDict.d)}
               = {StrKey(DocLeaves[j][1]) : j \in 1..Len(DocLeaves)}
        /\ \A j \in 1..Len(DocLeaves) :
               /\ DictHas(ModelDict.d, StrKey(DocLeaves[j][1]))
               /\ DictGet(ModelDict.d, StrKey(DocLeaves[j][1])) = PyStr(DocLeaves[j][2])

\* A nested document of several leaves, no two under the same key, one of
\* them in a list, was flattened.
C2_Witness ==
    /\ Flattened
    /\ NoSharedStrKey(DocLeaves)
    /\ Len(DocLeaves) >= 2
    /\ Len(ModelDict.d) = Len(DocLeaves)
    /\ fs.json.t = "dict"
    /\ \E i \in 1..Len(fs.json.kv) : fs.json.kv[i][2].t = "list"

\* What flattening makes of the file's document
Flat == _break_down_json_data(fs.json)

Ran(step) == \E i \in 1..Len(trace) : trace[i] = step

MissingMandatoryField(e) ==
    e.type = "AttributeError" /\ e.msg = "does not contain mandatory attribute"

\* C3: loading a file that parses fails with the missing-mandatory-field
\* error if and only if one of the seven names is absent from the flat
\* mapping, whatever else the document holds.
C3_MissingFieldIffAbsent ==
    (fs.kind = "json" /\ pc \notin {"init", "json_loaded"}) =>
        (MissingMandatoryField(error)
            <=> \E i \in AllMandatory : ~DictHas(Flat, MandatoryNames[i]))

\* C4: the missing-mandatory-field error names the first absent name in the
\* order host_url, user, pass, source, space_key, parent_page_id,
\* page_title, whatever the order of the document's keys.
C4_FirstAbsentNamed ==
    MissingMandatoryField(error) =>
        \E i \in AllMandatory :
            /\ error.arg = MandatoryNames[i]
            /\ ~DictHas(Flat, MandatoryNames[i])
            /\ \A j \in 1..(i - 1) : DictHas(Flat, MandatoryNames[j])

\* Several names are absent, the document lists the ones it has from the
\* last to the first, and the error names an absent one that is not the
\* first name of the document order.
C4_Witness ==
    /\ MissingMandatoryField(error)
    /\ Cardinality({i \in AllMandatory : ~DictHas(Flat, MandatoryNames[i])}) >= 2
    /\ error.arg = JSON_ATTR_PASS
    /\ fs.json.t = "dict"
    /\ Len(fs.json.kv) >= 2
    /\ fs.json.kv[1][1] = JSON_ATTR_PAGE_TITLE

StartsWithDollar(e) == e[1] # <<>> /\ e[1][1] = "$"

\* C5: once Config is constructed, template_variables is the flat mapping
\* restricted to the keys that start with '$': the same entries in the same
\* order, and empty when there is none.
C5_TemplateVariablesExact ==
    Ran("_validate_template_variables") =>
        template_variables = SelectSeq(ModelDict.d, StartsWithDollar)

\* A configuration with two template variables among other keys, one of
\* them written twice in the document.
C5_Witness ==
    /\ Ran("_validate_template_variables")
    /\ Len(template_variables) = 2
    /\ Len(ModelDict.d) = Len(MandatoryNames) + 2
    /\ Len(DocLeaves) > Len(ModelDict.d)

UnknownKey(e, key) ==
    e.type = "AttributeError" /\ e.msg = "does not contain attribute" /\ e.arg = key

\* C6: the lookup of a key returns flat[key] when the flat mapping holds the
\* key and fails with the unknown-key error when it does not, the names of
\* the loader object included.
C6_LookupIsFlatLookup ==
    ref.key # PyNone =>
        IF DictHas(Flat, ref.key)
        THEN ref.raised = NoError /\ ref.value = PStr(DictGet(Flat, ref.key))
        ELSE UnknownKey(ref.raised, ref.key)

\* C7: a path that does not exist fails with IOError, before the file is
\* opened, read or parsed.
C7_AbsentFileIsIOError ==
    (fs.kind = "absent" /\ pc # "init") =>
        /\ pc = "failed"
        /\ error.type = "IOError"
        /\ ~Ran("open")
        /\ ~Ran("_break_down_json_data")
        /\ ~Ran("_validate_mandatory_configuration")

C7_Witness == fs.kind = "absent" /\ pc = "failed" /\ Ran("os.path.exists")

\* C8: a file that exists and does not parse as JSON, an empty one included,
\* fails with the invalid-format error before the mandatory attributes are
\* validated, and leaves no flat mapping and no configuration.
C8_UnparseableIsInvalidFormat ==
    (fs.kind \in {"empty", "text"} /\ pc # "init") =>
        /\ pc = "failed"
        /\ error.type = "Exception"
        /\ error.msg = "Invalid JSON format"
        /\ ~Ran("_validate_mandatory_configuration")
        /\ json_data_obj = NewJsonDataFile
        /\ template_variables = <<>>

C8_Witness == fs.kind = "empty" /\ pc = "failed" /\ Ran("open")

IdentChars ==
    {UpperCase[i] : i \in 1..Len(UpperCase)}
    \union {LowerCase[i] : i \in 1..Len(LowerCase)}
    \union {Digits[i] : i \in 1..Len(Digits)}
    \union {"_"}

\* A variable name of letters, digits and underscores
IsIdentifier(name) == name # <<>> /\ \A i \in 1..Len(name) : name[i] \in IdentChars

\* value = "env." followed by name
IsEnvRef(value, name) == value = ENV_PREFIX \o name

\* The value after its first four characters
AfterPrefix(value) == SubSeq(value, Len(ENV_PREFIX) + 1, Len(value))

\* The credential stored under key follows the rule for the configured
\* value raw: "env.NAME" with NAME defined gives the variable's value, a
\* value without the sentinel (in any letter case) is kept as it is.
CredentialFollowsRule(key, raw) ==
    DictHas(credentials, key) =>
        /\ \A name \in DOMAIN environ :
               (IsIdentifier(name) /\ IsEnvRef(raw, name)) =>
                   DictGet(credentials, key) = environ[name]
        /\ ~Contains(Lower(raw), ENV_PREFIX) => DictGet(credentials, key) = raw

MissingEnvironmentVariable(e, name) ==
    /\ e.type = "AssertionError"
    /\ e.msg = "Environment variable does not exist"
    /\ e.arg = name

\* The configured value raw refers to a variable the environment lacks:
\* "env.NAME" with NAME unset, or any value in which the sentinel is found,
\* the name being what is looked up.
RefersToUnset(raw) ==
    \/ /\ StartsWith(raw, ENV_PREFIX)
       /\ IsIdentifier(AfterPrefix(raw))
       /\ AfterPrefix(raw) \notin DOMAIN environ
    \/ UsesEnv(raw) /\ EnvName(raw) \notin DOMAIN environ

UnsetName(raw) ==
    IF StartsWith(raw, ENV_PREFIX) /\ IsIdentifier(AfterPrefix(raw))
    THEN AfterPrefix(raw)
    ELSE EnvName(raw)

FirstSentinel(s) ==
    LET at == {i \in 1..Len(s) :
                  /\ i + Len(ENV_PREFIX) - 1 <= Len(s)
                  /\ Lower(SubSeq(s, i, i + Len(ENV_PREFIX) - 1)) = ENV_PREFIX}
    IN  IF at = {} THEN 0 ELSE CHOOSE i \in at : \A j \in at : i <= j

\* s without the first occurrence of the sentinel, in the letter case of s
WithoutFirstSentinel(s) ==
    SubSeq(s, 1, FirstSentinel(s) - 1)
        \o SubSeq(s, FirstSentinel(s) + Len(ENV_PREFIX), Len(s))

\* The credential stored under key is what the environment gives for the
\* trimmed configured value without its first sentinel.
LooksUpFirstStripped(key, raw) ==
    (DictHas(credentials, key) /\ FirstSentinel(Strip(raw)) # 0) =>
        DictGet(credentials, key) =
            EnvironGet(environ, WithoutFirstSentinel(Strip(raw)))

\* C11: the name looked up for an indirected credential is the trimmed value,
\* in its own letter case, without the first occurrence of "env.", the
\* sentinel being found whatever its letter case.
C11_LooksUpFirstStripped ==
    Ran("_load_config_file") =>
        /\ LooksUpFirstStripped(K_user, DictGet(Flat, JSON_ATTR_USER))
        /\ LooksUpFirstStripped(K_password, DictGet(Flat, JSON_ATTR_PASS))

HoldsSentinel(s) == s # PyNone /\ FirstSentinel(s) # 0

\* C12 as stated: no credential of a constructed PageManager holds the
\* sentinel in any letter case.
C12_NoMarkerLeft ==
    pc = "constructed" =>
        /\ ~HoldsSentinel(DictGet(credentials, K_user))
        /\ ~HoldsSentinel(DictGet(credentials, K_password))

\* The credential is the value of a variable of the environment.
FromEnvironment(cred) == \E name \in DOMAIN environ : environ[name] = cred

\* C12: a credential of a constructed PageManager holds the sentinel only
\* when it is the value the environment gave, which is stored as it is.
C12_MarkerOnlyFromEnvironment ==
    pc = "constructed" =>
        /\ HoldsSentinel(DictGet(credentials, K_user)) =>
               /\ HoldsSentinel(DictGet(Flat, JSON_ATTR_USER))
               /\ FromEnvironment(DictGet(credentials, K_user))
        /\ HoldsSentinel(DictGet(credentials, K_password)) =>
               /\ HoldsSentinel(DictGet(Flat, JSON_ATTR_PASS))
               /\ FromEnvironment(DictGet(credentials, K_password))

\* The user "env.F" was resolved to a value that holds the sentinel, and
\* the password was resolved from the environment too.
C12_Witness ==
    /\ pc = "constructed"
    /\ entry = "PageManager"
    /\ IsEnvRef(DictGet(Flat, JSON_ATTR_USER), <<"F">>)
    /\ DictGet(credentials, K_user) = V_marker
    /\ IsEnvRef(DictGet(Flat, JSON_ATTR_PASS), <<"F">>)
    /\ DictGet(credentials, K_password) = V_marker

(***************************************************************************)
(* The URL helpers                                                         *)
(***************************************************************************)

\* The helper name was the last one called on page_url.
JustCalled(name, before) == DOMAIN out = before \union {name}

AllIn(s, cls) == \A k \in 1..Len(s) : s[k] \in cls
From(s, i) == SubSeq(s, i, Len(s))

U_schemes == {<<"h","t","t","p",":","/","/">>, <<"h","t","t","p","s",":","/","/">>}
U_host == IdentChars \union {"-", "."}
U_digits == {"0","1","2","3","4","5","6","7","8","9"}

\* s is scheme://host, an optional ':' and at most five digits, and then
\* anything, the scheme standing at the first character of s.
MatchesUrlGrammar(s) ==
    \E sc \in U_schemes :
        /\ StartsWith(s, sc)
        /\ \E h \in (Len(sc) + 1)..(Len(s) + 1) :
               /\ AllIn(SubSeq(s, Len(sc) + 1, h - 1), U_host)
               /\ \E p \in {h, h + 1} :
                      /\ p = h + 1 => (h <= Len(s) /\ s[h] = ":")
                      /\ \E d \in p..(p + 5) :
                             /\ d <= Len(s) + 1
                             /\ AllIn(SubSeq(s, p, d - 1), U_digits)

U_example == <<"h","t","t","p",":","/","/","h",":","8","0","9","0">>
U_not_a_url == <<"n","o","t"," ","a"," ","u","r","l">>

\* C13: is_url(s) is true exactly when s, from its first character, is
\* http or https, "://", a host of letters, digits, '-', '_' and '.', an
\* optional ':' and up to five digits, and then anything: true of
\* "http://h:8090", false of "not a url" and of a scheme that starts later.
C13_IsUrlIffGrammar ==
    JustCalled("is_url", {}) =>
        /\ out["is_url"] <=> MatchesUrlGrammar(page_url)
        /\ page_url = U_example => out["is_url"]
        /\ page_url = U_not_a_url => ~out["is_url"]
        /\ (\A sc \in U_schemes : ~StartsWith(page_url, sc)) => ~out["is_url"]

\* is_url said yes to "https://h-1.c_d:8090/display/IIC/I+IC".
C13_Witness ==
    /\ JustCalled("is_url", {})
    /\ page_url = <<"h","t","t","p","s",":","/","/","h","-","1",".","c","_","d",
                    ":","8","0","9","0">> \o P_space \o P_title
    /\ out["is_url"] = TRUE

\* s ends with "pageId=" and one or more digits, the last characters of s.
EndsWithPageId(s) ==
    \E p \in 1..Len(s) :
        /\ HasAt(s, p, <<"p","a","g","e","I","d","=">>)
        /\ p + 7 <= Len(s)
        /\ AllIn(From(s, p + 7), U_digits)

\* C14: is_id_in_url(s) is true exactly when s ends with "pageId=" followed
\* by one or more digits, the last characters of the string.
C14_IdInUrlIffTrailingPageId ==
    JustCalled("is_id_in_url", {"is_url"}) =>
        (out["is_id_in_url"] <=> EndsWithPageId(page_url))

\* r is host or host:port, the host of one or more host characters and the
\* port of one to five digits.
HostAndPort(r) ==
    LET colons == {k \in 1..Len(r) : r[k] = ":"}
    IN  IF colons = {} THEN r # <<>> /\ AllIn(r, U_host)
        ELSE \E k \in colons :
                 /\ colons = {k}
                 /\ k > 1
                 /\ AllIn(SubSeq(r, 1, k - 1), U_host)
                 /\ Len(r) - k \in 1..5
                 /\ AllIn(From(r, k + 1), U_digits)

\* s is scheme://host[:port] followed by path
HasPath(s, path) ==
    /\ Len(path) <= Len(s)
    /\ From(s, Len(s) - Len(path) + 1) = path
    /\ \E sc \in U_schemes :
           /\ StartsWith(s, sc)
           /\ Len(sc) + Len(path) <= Len(s)
           /\ HostAndPort(SubSeq(s, Len(sc) + 1, Len(s) - Len(path)))

U_viewpage == <<"/","p","a","g","e","s","/","v","i","e","w","p","a","g","e",".",
                "a","c","t","i","o","n","?","p","a","g","e","I","d","=">>

\* The i of a page-id URL s: s is scheme://host[:port], the view-page path
\* with "pageId=", and from position i on one or more digits.
PageIdUrlDigitsAt(s) ==
    {i \in 2..Len(s) :
        /\ AllIn(From(s, i), U_digits)
        /\ i - Len(U_viewpage) >= 1
        /\ SubSeq(s, i - Len(U_viewpage), i - 1) = U_viewpage
        /\ HasPath(s, From(s, i - Len(U_viewpage)))}

\* C15: for scheme://host[:port]/pages/viewpage.action?pageId=<digits>, with
\* a port or without, get_id_from_url returns the whole digit sequence as a
\* string, every digit of it and leading zeros included.
C15_IdIsAllDigits ==
    JustCalled("get_id_from_url", {"is_url", "is_id_in_url"}) =>
        \A i \in PageIdUrlDigitsAt(page_url) :
            out["get_id_from_url"] = Returned(From(page_url, i))

\* The id "0202" was read from a URL without a port.
C15_Witness ==
    /\ JustCalled("get_id_from_url", {"is_url", "is_id_in_url"})
    /\ page_url = <<"h","t","t","p","s",":","/","/","h","-","1",".","c","_","d">>
                      \o U_viewpage \o <<"0","2","0","2">>
    /\ PageIdUrlDigitsAt(page_url) # {}
    /\ out["get_id_from_url"] = Returned(<<"0","2","0","2">>)

PageIdNotFound(e) == e.type = "Exception" /\ e.msg = "pageId not found in URL"

\* C16: when is_url(s) holds and what follows the scheme://host[:port] does
\* not end in pageId=<digits>, get_id_from_url fails with the error
\* 'pageId not found in URL' and with no other.
C16_NoPageIdIsPageIdNotFound ==
    (JustCalled("get_id_from_url", {"is_url", "is_id_in_url"})
        /\ out["is_url"] /\ ~EndsWithPageId(page_url)) =>
            PageIdNotFound(out["get_id_from_url"].raised)

U_display == <<"/","d","i","s","p","l","a","y","/">>
U_space == IdentChars \union {"-", "?", "~"}

\* The positions of the '/' that ends the space key of a display URL s: s is
\* scheme://host[:port]/display/<space>/<rest>, <space> of space-key
\* characters only.
DisplayUrlSlashAt(s) ==
    {j \in 1..Len(s) :
        /\ s[j] = "/"
        /\ \E i \in 1..j :
               /\ HasAt(s, i, U_display)
               /\ i + Len(U_display) <= j
               /\ AllIn(SubSeq(s, i + Len(U_display), j - 1), U_space)
               /\ HasPath(s, From(s, i))}

\* The space key that ends at the '/' at position j
SpaceBefore(s, j) ==
    LET starts == {i \in 1..j : /\ s[i] = "/"
                                /\ AllIn(SubSeq(s, i + 1, j - 1), U_space)}
    IN  SubSeq(s, (CHOOSE i \in starts : \A k \in starts : i <= k) + 1, j - 1)

\* "/display/", space-key characters and a '/' stand somewhere in s.
HasDisplayPath(s) ==
    \E i \in 1..Len(s) :
        /\ HasAt(s, i, U_display)
        /\ \E j \in (i + Len(U_display))..Len(s) :
               s[j] = "/" /\ AllIn(SubSeq(s, i + Len(U_display), j - 1), U_space)

SpaceNotFound(e) ==
    e.type = "Exception" /\ e.msg = "Confluence space not found in URL"

\* C17: for scheme://host[:port]/display/<space>/<rest>, <space> of word
\* characters, '-', '_', '?' and '~', get_space_from_url returns <space>;
\* for an is_url string whose path is not /display/<space>/<rest> it fails
\* with the space-not-found error.
C17_SpaceOrSpaceNotFound ==
    JustCalled("get_space_from_url", {"is_url", "is_id_in_url", "get_id_from_url"}) =>
        /\ \A j \in DisplayUrlSlashAt(page_url) :
               out["get_space_from_url"] = Returned(SpaceBefore(page_url, j))
        /\ (out["is_url"] /\ ~HasDisplayPath(page_url)) =>
               SpaceNotFound(out["get_space_from_url"].raised)

\* The first half of C17 alone
C17_SpaceOfDisplayUrl ==
    JustCalled("get_space_from_url", {"is_url", "is_id_in_url", "get_id_from_url"}) =>
        \A j \in DisplayUrlSlashAt(page_url) :
            out["get_space_from_url"] = Returned(SpaceBefore(page_url, j))

AllCalled ==
    DOMAIN out = {"is_url", "is_id_in_url", "get_id_from_url", "get_space_from_url",
                  "title", "title, formatted"}

\* t is s with every '+' turned into a space and nothing else changed.
PlusToSpace(s, t) ==
    /\ Len(t) = Len(s)
    /\ \A k \in 1..Len(s) : t[k] = (IF s[k] = "+" THEN " " ELSE s[k])

NoLineFeed(s) == \A k \in 1..Len(s) : s[k] # "\n"

C19_IdAndDisplayExclusive ==
    AllCalled =>
        ~ /\ out["is_id_in_url"]
          /\ out["get_id_from_url"].raised = NoError
          /\ \/ out["get_space_from_url"].raised = NoError
             \/ out["title"].raised = NoError
             \/ out["title, formatted"].raised = NoError

\* Some "pageId=" and digits in s are followed by a character that is not
\* a digit.
PageIdNotFinal(s) ==
    \E p \in 1..Len(s) :
        /\ HasAt(s, p, <<"p","a","g","e","I","d","=">>)
        /\ \E q \in (p + 8)..Len(s) :
               /\ AllIn(SubSeq(s, p + 7, q - 1), U_digits)
               /\ s[q] \notin U_digits

\* C20: when "pageId=<digits>" is followed by a further character and the
\* URL does not end with another pageId=<digits>, is_id_in_url is false and
\* get_id_from_url fails: no id is read from a pageId that is not final.
C20_PageIdMustBeFinal ==
    (JustCalled("get_id_from_url", {"is_url", "is_id_in_url"})
        /\ out["is_url"]
        /\ PageIdNotFinal(page_url) /\ ~EndsWithPageId(page_url)) =>
            /\ ~out["is_id_in_url"]
            /\ out["get_id_from_url"].raised # NoError

(***************************************************************************)
(* The Page built from a response, and the response handler                *)
(***************************************************************************)

ClientDid(names) == pc = "client_done" /\ trace[Len(trace)] \in names

\* A Page was constructed: the request gave the body of the response back
PageConstructed ==
    /\ ClientDid({"create_page", "get_content", "get_page_from_title"})
    /\ _get(response).raised = NoError

\* The object the Page reads its fields from: the first of the results, or
\* the response itself; no object when the results are empty
PageData ==
    IF "results" \in response.json.keys
    THEN IF response.json.results = <<>>
         THEN [where |-> "results[0]", keys |-> {}]
         ELSE [where |-> "results[0]", keys |-> response.json.results[1]]
    ELSE [where |-> "response", keys |-> response.json.keys]

ExposesUnchanged(pg) ==
    /\ pg.id_number = JsonAt(PageData.where, "id")
    /\ pg.title = JsonAt(PageData.where, "title")
    /\ pg.space_key = JsonAt(PageData.where, "space.key")
    /\ pg.content = JsonAt(PageData.where, "body.storage.value")
    /\ pg.permanent_link = JsonAt(PageData.where, "_links.tinyui")

\* C21: constructing a Page from a response fails whenever any of id, title,
\* space, space.key, body, body.storage, body.storage.value, _links and
\* _links.tinyui is absent from it, and succeeds when all are present, the
\* Page then holding the values of the response unchanged.
C21_PageNeedsEveryField ==
    PageConstructed =>
        /\ (outcome.raised # NoError) <=> ~(RequiredFields \subseteq PageData.keys)
        /\ outcome.raised = NoError => ExposesUnchanged(outcome.value)

ErrorStatuses == {400, 403, 404, 409, 413}

\* C30: every error status the response handler tells apart (400, 403, 404,
\* 409, 413) makes the request operation fail: 400 with a ConfluenceError
\* that carries the message and the status code of the server, 403 with a
\* ConfluencePermissionError, 404, 409 and 413 with an error too, so that the
\* body of such a response is not returned and no Page is built from it.
C30_ErrorStatusFails ==
    (pc = "client_done" /\ response.status \in ErrorStatuses) =>
        /\ outcome.raised # NoError
        /\ (/\ response.status = 400
            /\ response.json.kind = "dict"
            /\ {"message", "statusCode"} \subseteq response.json.keys)
              => /\ outcome.raised.type = "ConfluenceError"
                 /\ outcome.raised.arg = <<JsonAt("response", "message"),
                                           JsonAt("response", "statusCode")>>
        /\ response.status = 403 => outcome.raised.type = "ConfluencePermissionError"

(***************************************************************************)
(* The operations of a constructed PageManager                             *)
(***************************************************************************)

\* The events of the log, by what they are
IsProbe(e) == e.event = "probe"
IsGoodProbe(e) == e.event = "probe" /\ e.status = HTTP_CODE_OK
IsBadProbe(e) == e.event = "probe" /\ e.status # HTTP_CODE_OK
IsSession(e) == e.event = "session"
IsRequest(e) == e.event = "request"
IsPost(e) == e.event = "request" /\ e.method = "POST"
Decorated ==
    {"generate_page", "delete_page", "get_page_content_by_id", "get_page_content_by_url"}
IsDecoratedCall(e) == e.event = "call" /\ e.name \in Decorated

\* Where the last call starts in the log, and what it logged
LastCallAt == CHOOSE i \in 1..Len(log) : IsCall(log[i]) /\ \A j \in (i + 1)..Len(log) : ~IsCall(log[j])
LastCall == SubSeq(log, LastCallAt, Len(log))
LastCalled(name) == CallsMade > 0 /\ log[LastCallAt].name = name
Holds(events, Is(_)) == \E i \in 1..Len(events) : Is(events[i])

NotAnUrl(e) == e.type = "Exception" /\ e.msg = "Given value is not a valid URL"

\* C22: when the configured source is an existing file and no URL, a
\* generate_page that got past authentication does not fail for the source
\* being no URL: it has the template and sends the request that creates the
\* page.
C22_FileSourceGeneratesPage ==
    (/\ pc = "constructed"
     /\ PathExists(template_source) /\ ~is_url(template_source)
     /\ LastCalled("generate_page")
     /\ ~Holds(LastCall, IsBadProbe)) =>
        /\ ~NotAnUrl(outcome.raised)
        /\ _html_template # PyNone
        /\ Holds(LastCall, IsPost)

\* What the claim expects of the substitution: the text read from left to
\* right, each occurrence of a variable name replaced by the value of that
\* variable, the longest name that starts at a place being the one that
\* occurs there; what a value holds is not read again.
RECURSIVE EachReplacedByOwnValue(_, _)
EachReplacedByOwnValue(text, items) ==
    IF text = <<>> THEN <<>>
    ELSE LET here == {i \in 1..Len(items) : StartsWith(text, items[i][1])}
             longest == CHOOSE i \in here :
                            \A j \in here : Len(items[j][1]) <= Len(items[i][1])
         IN  IF here = {}
             THEN <<Head(text)>> \o EachReplacedByOwnValue(Tail(text), items)
             ELSE items[longest][2]
                      \o EachReplacedByOwnValue(
                             SubSeq(text, Len(items[longest][1]) + 1, Len(text)), items)

\* The texts get_page_content_by_url gives as the template
TemplateTexts == {T_html, S_None}

\* The call fetched the template: the request before the POST is a GET
FetchedAndPosted(events) ==
    \E i \in 1..Len(events) : IsPost(events[i]) /\ Holds(SubSeq(events, 1, i - 1), IsRequest)

\* C25: the template generate_page has prepared, and posts, is the text it
\* fetched with every occurrence of every configured variable name replaced
\* by that variable's own value, whatever the variables and their order, a
\* name that is a prefix of another name and a value that holds another
\* name included.
C25_EachVariableReplacedByOwnValue ==
    (LastCalled("generate_page") /\ FetchedAndPosted(LastCall)) =>
        \E text \in TemplateTexts :
            /\ _html_template = EachReplacedByOwnValue(text, template_variables)
            /\ \A i \in 1..Len(LastCall) :
                   IsPost(LastCall[i]) => LastCall[i].data = _html_template

GoodProbeBefore(i) == Holds(SubSeq(log, 1, i - 1), IsGoodProbe)

\* C26: once a PageManager is authenticated no further probe is issued: a
\* decorated operation called then, and the decorated operations it calls,
\* run their bodies at once. So no probe follows a successful one, at most
\* one probe succeeds, and is_authenticated, true from the successful probe
\* on, never returns to false.
C26_NoProbeOnceAuthenticated ==
    pc = "constructed" =>
        /\ is_authenticated <=> Holds(log, IsGoodProbe)
        /\ \A i \in 1..Len(log) : IsProbe(log[i]) => ~GoodProbeBefore(i)
        /\ (CallsMade > 0 /\ IsDecoratedCall(log[LastCallAt])
                /\ GoodProbeBefore(LastCallAt))
              => /\ outcome.raised # AuthenticationError
                 /\ is_authenticated

\* An authenticated PageManager has generated a page, fetching the template
\* through the decorated operations generate_page calls, without a probe.
C26_Witness ==
    /\ pc = "constructed"
    /\ LastCalled("generate_page")
    /\ GoodProbeBefore(LastCallAt)
    /\ ~Holds(LastCall, IsProbe)
    /\ FetchedAndPosted(LastCall)
    /\ is_authenticated

AuthenticationFailed(i) ==
    /\ IsBadProbe(log[i])
    /\ i = Len(log) \/ IsCall(log[i + 1])
    /\ i = Len(log) => outcome.raised = AuthenticationError /\ ~is_authenticated

\* C27: when the probe of a decorated operation is not answered with 200,
\* the operation fails with the authentication AssertionError, its body is
\* not run (no session is opened and no request is sent), is_authenticated
\* is false after it, and the next decorated call probes again.
C27_BadProbeFailsAndProbesAgain ==
    pc = "constructed" =>
        \A i \in 1..Len(log) :
            IsBadProbe(log[i]) =>
                /\ AuthenticationFailed(i)
                /\ \A j \in (i + 1)..Len(log) :
                       (IsDecoratedCall(log[j]) /\ ~GoodProbeBefore(j))
                           => j < Len(log) /\ IsProbe(log[j + 1])

\* A probe was refused, and the decorated operation called next has probed.
C27_Witness ==
    /\ pc = "constructed"
    /\ \E i \in 1..(Len(log) - 2) :
           /\ IsBadProbe(log[i])
           /\ IsDecoratedCall(log[i + 1])
           /\ IsProbe(log[i + 2])
    /\ IsBadProbe(log[Len(log)])
    /\ outcome.raised = AuthenticationError
    /\ ~is_authenticated

\* C28: in every sequence of public operations of a PageManager, no request
\* to the REST API is sent while is_authenticated is false.
C28_NoRequestBeforeAuthentication ==
    (entry = "PageManager" /\ pc = "constructed") =>
        \A i \in 1..Len(log) : IsRequest(log[i]) => log[i].authenticated

\* The digits a string ends with
RECURSIVE TrailingDigits(_)
TrailingDigits(s) ==
    IF s = <<>> \/ s[Len(s)] \notin U_digits THEN <<>>
    ELSE TrailingDigits(SubSeq(s, 1, Len(s) - 1)) \o <<s[Len(s)]>>

\* C29: get_page_content_by_url routes as the extractors read. For a URL
\* with is_id_in_url, get_id_from_url succeeds and gives the digits the URL
\* ends with, and the page of that id is asked for. For a URL that takes
\* the other branch and from which the space or the title cannot be read,
\* the operation fails before any request is sent.
C29_RoutingAgreesWithExtractors ==
    (/\ pc = "constructed"
     /\ LastCalled("get_page_content_by_url")
     /\ ~Holds(LastCall, IsBadProbe)) =>
        LET url == log[LastCallAt].args
        IN  /\ (is_url(url) /\ is_id_in_url(url)) =>
                   /\ get_id_from_url(url) = Returned(TrailingDigits(url))
                   /\ \E i \in 1..Len(LastCall) :
                          /\ IsRequest(LastCall[i])
                          /\ LastCall[i].data = TrailingDigits(url)
            /\ (/\ is_url(url) /\ ~is_id_in_url(url)
                /\ \/ get_space_from_url(url).raised # NoError
                   \/ get_page_title_from_url(url, TRUE).raised # NoError) =>
                   /\ outcome.raised # NoError
                   /\ ~Holds(LastCall, IsRequest)

(***************************************************************************)
(* Leaves without a key                                                    *)
(***************************************************************************)

IsScalar(x) == x.t \notin {"dict", "list"}
\* The root is a scalar, or a list of scalars: every leaf is reached with
\* no key
BareRoot(x) ==
    \/ IsScalar(x)
    \/ x.t = "list" /\ \A i \in 1..Len(x.el) : IsScalar(x.el[i])

\* C24: a document whose root is a bare scalar, or a list of scalars, leaves
\* no entry in the flat mapping, whether the load goes through or raises:
\* no entry is added under a key the document does not hold.
C24_BareRootLeavesNoEntry ==
    (pc # "init" /\ fs.kind = "json" /\ BareRoot(fs.json)) =>
        ModelDict = PDict(<<>>)

====
